---- MODULE Spec2Model ----
(***************************************************************************)
(* RemediationError (pkg/errors/remediation_error.go) and the testutil     *)
(* assertions that inspect it.                                             *)
(*                                                                         *)
(* A Go string is a sequence of one-character strings, so that trimming,   *)
(* concatenation and substring search are computed, not assumed.  An error *)
(* value is a record with a kind: the nil interface, a plain error with an *)
(* identity and a message (two distinct errors may carry the same          *)
(* message), a RemediationError value, or a pointer to one.                *)
(***************************************************************************)
EXTENDS Integers, Sequences, FiniteSets, TLC

VARIABLES
    pc,        \* position: "start", "built", "L40", "L43", "L46", "returned", "setup", "asserted"
    op,        \* the operation called: "none", "Unwrap", "Error", "Print", or an assertion's name
    args,      \* the values handed to the struct literal: prefix, inner, remediation
    re,        \* the RemediationError built from them
    w,         \* the io.Writer: every character written so far
    writes,    \* the Write calls made on w, in order: [block, text]
    retErr,    \* what Unwrap returned
    retStr,    \* what Error returned
    err,       \* the err argument of an assertion
    target,    \* the target argument of an assertion
    t          \* the testing.T: [failed, msg]

vars == <<pc, op, args, re, w, writes, retErr, retStr, err, target, t>>

----------------------------------------------------------------------------
(* Bounds *)

\* Longest generated prefix, remediation and target string.
MaxLen == 2

----------------------------------------------------------------------------
(* Characters and strings *)

CR == "\r"
LF == "\n"
TAB == "\t"
SP == " "

\* The characters generated strings are made of.
Alphabet == {"a", CR, LF, SP}

Strs(n) == UNION {[1..k -> Alphabet] : k \in 0..n}

\* "Custom context"
CustomContext == <<"C","u","s","t","o","m",SP,"c","o","n","t","e","x","t">>
\* "text\r\n\r\n"
TextCRLF == <<"t","e","x","t",CR,LF,CR,LF>>
\* "Error: x"
ErrorLooking == <<"E","r","r","o","r",":",SP,"x">>
\* "a\nb \t" and "a\t\n"
InnerBreak == <<"a",LF,"b",SP,TAB>>
TabThenLF == <<"a",TAB,LF>>
\* "token invalid", "Run X", "a."
TokenInvalid == <<"t","o","k","e","n",SP,"i","n","v","a","l","i","d">>
RunX == <<"R","u","n",SP,"X">>
Punctuated == <<"a",".">>

\* strings.Contains(s, substr)
Contains(s, substr) ==
    \E i \in 0..(Len(s) - Len(substr)) : SubSeq(s, i + 1, i + Len(substr)) = substr

\* strings.TrimRight(s, cutset) with the cutset as a set of characters:
\* drop characters from the end for as long as the last one is in the cutset.
RECURSIVE TrimRight_lf(_, _)
TrimRight_lf(s, cutset) ==
    IF s # <<>> /\ s[Len(s)] = LF
    THEN TrimRight_lf(SubSeq(s, 1, Len(s) - 1), cutset)
    ELSE s

RECURSIVE TrimRight(_, _)
TrimRight(s, cutset) ==
    IF s # <<>> /\ s[Len(s)] \in cutset
    THEN TrimRight(SubSeq(s, 1, Len(s) - 1), cutset)
    ELSE s

\* The cutset "\r\n" of lines 41 and 47.
CutsetCRLF == {CR, LF}

----------------------------------------------------------------------------
(* Error values *)

NilErr == [kind |-> "nil"]

PlainErr(i, m) == [kind |-> "plain", id |-> i, msg |-> m]

\* The struct literal RemediationError{Prefix: p, Inner: i, Remediation: r}.
RemediationError(p, i, r) ==
    [kind |-> "RemediationError", Prefix |-> p, Inner |-> i, Remediation |-> r]

\* &RemediationError{...}: the pointer type, which is not the value type.
PtrTo(r) == [r EXCEPT !.kind = "*RemediationError"]

\* The zero value of the struct.
ZeroRE == RemediationError(<<>>, NilErr, <<>>)

\* err.Error() on a non-nil error value: dynamic dispatch on its type.
RECURSIVE ErrorString(_)

\* func (re RemediationError) Unwrap() error
Unwrap_copy(r) ==
    IF r.Inner.kind = "plain" THEN PlainErr(0, r.Inner.msg) ELSE r.Inner

Unwrap(r) == r.Inner

\* func (re RemediationError) Error() string
Error_prefixed(r) ==
    IF r.Inner = NilErr THEN r.Prefix ELSE ErrorString(r.Inner)

Error_decorated(r) ==
    IF r.Inner = NilErr THEN <<>> ELSE ErrorString(r.Inner) \o r.Remediation

Error(r) ==
    IF r.Inner = NilErr THEN <<>> ELSE ErrorString(r.Inner)

ErrorString(e) ==
    IF e.kind = "plain" THEN e.msg ELSE Error(e)

----------------------------------------------------------------------------
(* The blocks of Print *)

\* fmt.Fprintf(w, "%s\n\n", strings.TrimRight(re.Prefix, "\r\n"))
PrefixBlock(r) == TrimRight(r.Prefix, CutsetCRLF) \o <<LF, LF>>

\* The format "%s.\n\n" applied to re.Inner.Error().
InnerFormat_nodouble(msg) ==
    IF msg # <<>> /\ msg[Len(msg)] = "."
    THEN msg \o <<LF, LF>>
    ELSE msg \o <<".", LF, LF>>

InnerFormat(msg) == msg \o <<".", LF, LF>>

\* The label text.Error puts ahead of the formatted message: "Error: ".
ErrorLabel == <<"E","r","r","o","r",":",SP>>

\* text.Error(w, format, args...): the label, then the formatted text.
TextError(formatted) == ErrorLabel \o formatted

InnerBlock(r) == TextError(InnerFormat(ErrorString(r.Inner)))

\* fmt.Fprintf(w, "%s\n", strings.TrimRight(re.Remediation, "\r\n"))
RemediationBlock_raw(r) == r.Remediation \o <<LF>>

RemediationBlock(r) == TrimRight(r.Remediation, CutsetCRLF) \o <<LF>>

\* The statement that follows each statement of Print.
PcAfter_swapped(l) ==
    CASE l = "L40" -> "L46"
      [] l = "L46" -> "L43"
      [] l = "L43" -> "returned"

PcAfter(l) ==
    CASE l = "L40" -> "L43"
      [] l = "L43" -> "L46"
      [] l = "L46" -> "returned"

----------------------------------------------------------------------------
(* Inputs *)

PrefixInputs ==
    Strs(MaxLen) \cup {CustomContext, TextCRLF, ErrorLooking, InnerBreak, TabThenLF}

RemediationInputs ==
    Strs(MaxLen) \cup {RunX, TextCRLF, ErrorLooking, InnerBreak, TabThenLF}

MessageInputs == {<<>>, <<"a">>, Punctuated, TokenInvalid}

\* Two distinct error values for every message.
PlainErrs == {PlainErr(i, m) : i \in {1, 2}, m \in MessageInputs}

\* A non-nil inner error that is itself a RemediationError.
NestedErrs ==
    {RemediationError(<<"a">>, NilErr, <<"a">>),
     RemediationError(<<>>, PlainErr(1, <<"a">>), RunX)}

InnerInputs == {NilErr} \cup PlainErrs \cup NestedErrs

\* The errors handed to the assertions.
AssertREs ==
    {RemediationError(p, i, r) :
        p \in {<<>>, <<"a">>}, i \in {NilErr, PlainErr(1, <<"a">>)}, r \in Strs(MaxLen)}

ErrInputs ==
    {NilErr} \cup PlainErrs \cup AssertREs \cup {PtrTo(r) : r \in AssertREs}

TargetInputs == Strs(MaxLen)

----------------------------------------------------------------------------
(* State machine *)

Passed == [failed |-> FALSE, msg |-> "none"]
Fatal(m) == [failed |-> TRUE, msg |-> m]

Unset == [kind |-> "unset"]

Init ==
    /\ pc = "start"
    /\ op = "none"
    /\ args = [prefix |-> <<>>, inner |-> NilErr, remediation |-> <<>>]
    /\ re = ZeroRE
    /\ w = <<>>
    /\ writes = <<>>
    /\ retErr = Unset
    /\ retStr = <<>>
    /\ err = NilErr
    /\ target = <<>>
    /\ t = Passed

\* A caller builds the error from a prefix, an inner error and a remediation.
New ==
    /\ pc = "start"
    /\ \E p \in PrefixInputs, i \in InnerInputs, r \in RemediationInputs :
        /\ args' = [prefix |-> p, inner |-> i, remediation |-> r]
        /\ re' = RemediationError(p, i, r)
    /\ pc' = "built"
    /\ UNCHANGED <<op, w, writes, retErr, retStr, err, target, t>>

CallUnwrap ==
    /\ pc = "built"
    /\ op' = "Unwrap"
    /\ retErr' = Unwrap(re)
    /\ pc' = "returned"
    /\ UNCHANGED <<args, re, w, writes, retStr, err, target, t>>

CallError ==
    /\ pc = "built"
    /\ op' = "Error"
    /\ retStr' = Error(re)
    /\ pc' = "returned"
    /\ UNCHANGED <<args, re, w, writes, retErr, err, target, t>>

\* Print is entered with an empty writer.
CallPrint ==
    /\ pc = "built"
    /\ op' = "Print"
    /\ pc' = "L40"
    /\ UNCHANGED <<args, re, w, writes, retErr, retStr, err, target, t>>

Write(block, text) ==
    /\ w' = w \o text
    /\ writes' = Append(writes, [block |-> block, text |-> text])

\* if re.Prefix != "" { fmt.Fprintf(...) }
PrintPrefix_trimmed ==
    /\ pc = "L40"
    /\ IF TrimRight(re.Prefix, CutsetCRLF) # <<>>
       THEN Write("prefix", PrefixBlock(re))
       ELSE UNCHANGED <<w, writes>>
    /\ pc' = PcAfter("L40")
    /\ UNCHANGED <<op, args, re, retErr, retStr, err, target, t>>

PrintPrefix_always ==
    /\ pc = "L40"
    /\ Write("prefix", PrefixBlock(re))
    /\ pc' = PcAfter("L40")
    /\ UNCHANGED <<op, args, re, retErr, retStr, err, target, t>>

PrintPrefix ==
    /\ pc = "L40"
    /\ IF re.Prefix # <<>>
       THEN Write("prefix", PrefixBlock(re))
       ELSE UNCHANGED <<w, writes>>
    /\ pc' = PcAfter("L40")
    /\ UNCHANGED <<op, args, re, retErr, retStr, err, target, t>>

\* if re.Inner != nil { text.Error(...) }
PrintInner ==
    /\ pc = "L43"
    /\ IF re.Inner # NilErr
       THEN Write("inner", InnerBlock(re))
       ELSE UNCHANGED <<w, writes>>
    /\ pc' = PcAfter("L43")
    /\ UNCHANGED <<op, args, re, retErr, retStr, err, target, t>>

\* if re.Remediation != "" { fmt.Fprintf(...) }
PrintRemediation ==
    /\ pc = "L46"
    /\ IF re.Remediation # <<>>
       THEN Write("remediation", RemediationBlock(re))
       ELSE UNCHANGED <<w, writes>>
    /\ pc' = PcAfter("L46")
    /\ UNCHANGED <<op, args, re, retErr, retStr, err, target, t>>

Next ==
    \/ New
    \/ CallUnwrap
    \/ CallError
    \/ CallPrint
    \/ PrintPrefix
    \/ PrintInner
    \/ PrintRemediation

Spec == Init /\ [][Next]_vars

----------------------------------------------------------------------------
(* testutil: the assertions, as the state they leave the testing.T in *)

\* func AssertErrorContains(t *testing.T, err error, target string)
AssertErrorContains(e, tg) ==
    CASE e = NilErr /\ tg = <<>> -> Passed
      [] e = NilErr /\ tg # <<>> -> Fatal("want target, have no error")
      [] e # NilErr /\ tg = <<>> -> Fatal("want no error")
      [] e # NilErr /\ tg # <<>> ->
            IF ~Contains(ErrorString(e), tg)
            THEN Fatal("want target, have other")
            ELSE Passed

\* func AssertRemediationErrorContains(t *testing.T, err error, target string)
\* re, ok := err.(errors.RemediationError): ok only for the value type, and
\* re the zero value otherwise.  A switch none of whose cases holds does nothing.
AssertRemediationErrorContains(e, tg) ==
    LET ok == e.kind = "RemediationError"
        r == IF ok THEN e ELSE ZeroRE
    IN  CASE e = NilErr /\ tg = <<>> -> Passed
          [] e = NilErr /\ tg # <<>> -> Fatal("want target, have no error")
          [] e # NilErr /\ tg # <<>> /\ ~ok -> Fatal("have no RemediationError")
          [] e # NilErr /\ tg # <<>> /\ ok ->
                IF ~Contains(r.Remediation, tg)
                THEN Fatal("want target, have other")
                ELSE Passed
          [] OTHER -> Passed

\* A test obtains an error and states the target it expects.
Setup ==
    /\ pc = "start"
    /\ \E e \in ErrInputs, tg \in TargetInputs :
        /\ err' = e
        /\ target' = tg
    /\ pc' = "setup"
    /\ UNCHANGED <<op, args, re, w, writes, retErr, retStr, t>>

CallAssertErrorContains ==
    /\ pc = "setup"
    /\ op' = "AssertErrorContains"
    /\ t' = AssertErrorContains(err, target)
    /\ pc' = "asserted"
    /\ UNCHANGED <<args, re, w, writes, retErr, retStr, err, target>>

CallAssertRemediationErrorContains ==
    /\ pc = "setup"
    /\ op' = "AssertRemediationErrorContains"
    /\ t' = AssertRemediationErrorContains(err, target)
    /\ pc' = "asserted"
    /\ UNCHANGED <<args, re, w, writes, retErr, retStr, err, target>>

NextAssert ==
    \/ Setup
    \/ CallAssertErrorContains
    \/ CallAssertRemediationErrorContains

SpecAssert == Init /\ [][NextAssert]_vars

----------------------------------------------------------------------------
(* Vocabulary of the properties, stated without the model's own helpers *)

UnwrapDone == pc = "returned" /\ op = "Unwrap"
ErrorDone == pc = "returned" /\ op = "Error"
PrintDone == pc = "returned" /\ op = "Print"

\* The message of a non-nil error of the input sets.
MessageOf(e) ==
    IF e.kind = "plain" THEN e.msg
    ELSE IF e.Inner = NilErr THEN <<>> ELSE e.Inner.msg

\* s without its trailing "\r" and "\n": the longest prefix of s that does
\* not end in one of them, everything after it being "\r" or "\n".
Trimmed(s) ==
    SubSeq(s, 1, CHOOSE k \in 0..Len(s) :
                    /\ \A j \in (k + 1)..Len(s) : s[j] \in {CR, LF}
                    /\ k = 0 \/ s[k] \notin {CR, LF})

\* Some line of s begins with pre.
HasLineBeginning(s, pre) ==
    \E i \in 1..Len(s) :
        /\ i = 1 \/ s[i - 1] = LF
        /\ i + Len(pre) - 1 <= Len(s)
        /\ SubSeq(s, i, i + Len(pre) - 1) = pre

\* How many times sub occurs in s.
Occurrences(s, sub) ==
    Cardinality({i \in 0..(Len(s) - Len(sub)) : SubSeq(s, i + 1, i + Len(sub)) = sub})

\* The Write calls made for one block.
WritesOf(block) == {i \in 1..Len(writes) : writes[i].block = block}

Rank(block) ==
    CASE block = "prefix" -> 1
      [] block = "inner" -> 2
      [] block = "remediation" -> 3

\* "Error: <message>.\n\n"
ErrorLine(msg) == <<"E","r","r","o","r",":",SP>> \o msg \o <<".", LF, LF>>

----------------------------------------------------------------------------
(* C1 *)

\* C1: Unwrap returns the very inner value handed to the struct literal, nil
\* or not, the same value and not merely one with an equal message, whatever
\* the prefix and the remediation are.
C1_UnwrapIsIdentity == UnwrapDone => retErr = args.inner

\* Unwrap has returned the second of two errors that share the message "a",
\* from a wrapper with a prefix and a remediation.
C1_Witness ==
    /\ UnwrapDone
    /\ retErr = PlainErr(2, <<"a">>)
    /\ args.prefix # <<>>
    /\ args.remediation # <<>>

----------------------------------------------------------------------------
(* C2, C3 *)

\* C2: with a nil inner error, Error returns the empty string, whatever the
\* prefix and the remediation are.
C2_ErrorOfNilIsEmpty == (ErrorDone /\ args.inner = NilErr) => retStr = <<>>

C2_Witness ==
    /\ ErrorDone
    /\ args.inner = NilErr
    /\ args.prefix = CustomContext
    /\ args.remediation = RunX
    /\ retStr = <<>>

\* C3: with a non-nil inner error, Error returns the inner error's message
\* and nothing else: no label, no period, no prefix, no remediation.
C3_ErrorIsInnerMessage ==
    (ErrorDone /\ args.inner # NilErr) => retStr = MessageOf(args.inner)

C3_Witness ==
    /\ ErrorDone
    /\ args.inner = PlainErr(1, TokenInvalid)
    /\ args.prefix = CustomContext
    /\ args.remediation = RunX
    /\ retStr = TokenInvalid

----------------------------------------------------------------------------
(* C4 *)

\* C4: the blocks are written in one order, prefix before inner error before
\* remediation: no block is written after a block that follows it.
C4_FixedOrder ==
    \A i, j \in 1..Len(writes) :
        i < j => Rank(writes[i].block) < Rank(writes[j].block)

\* All three blocks have been written.
C4_Witness ==
    /\ PrintDone
    /\ Len(writes) = 3
    /\ writes[1].block = "prefix"
    /\ writes[3].block = "remediation"

----------------------------------------------------------------------------
(* C5 *)

----------------------------------------------------------------------------
(* C6 *)

\* What C6 says Print writes for a triple.
ExpectedOutput(p, i, r) ==
    (IF p # <<>> THEN Trimmed(p) \o <<LF, LF>> ELSE <<>>)
    \o (IF i # NilErr THEN ErrorLine(MessageOf(i)) ELSE <<>>)
    \o (IF r # <<>> THEN Trimmed(r) \o <<LF>> ELSE <<>>)

----------------------------------------------------------------------------
(* C7 *)

\* text is s cut after its last character that is neither "\r" nor "\n",
\* followed by the line breaks ending.
IsTrimmedThen(text, s, ending) ==
    \E k \in 0..Len(s) :
        /\ \A j \in (k + 1)..Len(s) : s[j] \in {CR, LF}
        /\ k = 0 \/ s[k] \notin {CR, LF}
        /\ text = SubSeq(s, 1, k) \o ending

----------------------------------------------------------------------------
(* C8 *)

\* C8 as stated: no prefix text is written for an empty prefix, and a
\* non-empty prefix text never occurs more than once in the output.
C8_Original ==
    PrintDone =>
        /\ args.prefix = <<>> => WritesOf("prefix") = {}
        /\ args.prefix # <<>> => Occurrences(w, args.prefix) <= 1

\* C8, amended: the prefix block is written only when the prefix is
\* non-empty, and then exactly once, as the first write.
C8_PrefixBlockOnce ==
    PrintDone =>
        /\ args.prefix = <<>> => WritesOf("prefix") = {}
        /\ args.prefix # <<>> => WritesOf("prefix") = {1}

\* The remediation repeats the prefix: one prefix block, two occurrences.
C8_Witness ==
    /\ PrintDone
    /\ args.prefix = <<"a">>
    /\ args.remediation = <<"a">>
    /\ WritesOf("prefix") = {1}
    /\ Occurrences(w, args.prefix) > 1

----------------------------------------------------------------------------
(* C9 *)

\* C9: AssertRemediationErrorContains with an empty target fails the test
\* exactly when err is non-nil; with a non-empty target it fails the test
\* exactly when err is nil, or is no RemediationError value, or has a
\* Remediation that does not contain the target.
C9_EmptyTargetMeansNil ==
    (pc = "asserted" /\ op = "AssertRemediationErrorContains") =>
        /\ target = <<>> => (t.failed <=> err # NilErr)
        /\ target # <<>> =>
            (t.failed <=>
                \/ err = NilErr
                \/ err.kind # "RemediationError"
                \/ ~Contains(err.Remediation, target))

----------------------------------------------------------------------------
(* C10 *)

====
